---- MODULE Spec2Model ----
(***************************************************************************)
(* Model of the Ableton OSC controller:                                    *)
(*   controller/emotion_controller.py   (EmotionController, presets)       *)
(*   controller/ableton_state_monitor.py (AbletonStateMonitor, the store)  *)
(*                                                                         *)
(* Volumes are exact rationals kept as integers: a value written by a ramp *)
(* of `steps` steps is counted in units of 1/(100*steps)^2, so that        *)
(* (0.92 - step/steps)^2 and (step/steps * 0.92)^2 are integers.           *)
(*                                                                         *)
(* Threads: the command thread (main) and the polling workers created by   *)
(* start_polling.  A thread can be pre-empted wherever the code sleeps or  *)
(* does I/O: at the HTTP fetch, at the sleep that ends every crossfade     *)
(* step, between the final sets and the assignment of current_state, and   *)
(* at the worker's sleep.                                                  *)
(***************************************************************************)
EXTENDS Integers, Sequences, FiniteSets, TLC

\* ------------------------------------------------------------- bounds
\* Steps of the ramp that transition_to_state asks of crossfade (the code
\* passes steps=30; the model runs the same loop with fewer iterations).
RampSteps == 2
\* Polling worker threads that start_polling may create in one run.
MaxWorkers == 1
\* Transitions that get past transition_to_state's early returns in one run.
MaxTransitions == 2
\* The largest step count asked of set_volume and crossfade called directly.
MaxFadeSteps == 30
\* The number of worker threads start_polling may create when only the
\* polling lifecycle runs.
MaxPollers == 2

\* ---------------------------------------------------- program constants
None == -1
NumChannels == 12
Channels == 0 .. (NumChannels - 1)

STATES == 1 .. 5

STATE_CHANNELS ==
  [s \in STATES |->
     CASE s = 1 -> [up |-> 0 .. 3,  down |-> 4 .. 11]
       [] s = 2 -> [up |-> 5 .. 8,  down |-> (0 .. 4) \cup (9 .. 11)]
       [] s = 3 -> [up |-> {9},     down |-> (0 .. 8) \cup (10 .. 11)]
       [] s = 4 -> [up |-> {10},    down |-> (0 .. 9) \cup {11}]
       [] s = 5 -> [up |-> {11},    down |-> 0 .. 10]]

\* 0.84, the level of an "up" channel, in hundredths.
OnLevel == 84
\* 0.92, the crossover constant of crossfade, in hundredths.
Crossover == 92

\* A volume of h hundredths in the unit of a ramp of `steps` steps.
Hundredths(h, steps) == h * 100 * steps * steps

\* FadeOutValue without the test of progress against 0.92.
FadeOutValueNoFloor(step, steps) ==
  (Crossover * steps - 100 * step) * (Crossover * steps - 100 * step)

\* crossfade, line 66: math.pow(0.92 - progress, 2) if progress < 0.92 else 0
FadeOutValue(step, steps) ==
  IF 100 * step < Crossover * steps
    THEN (Crossover * steps - 100 * step) * (Crossover * steps - 100 * step)
    ELSE 0

\* crossfade, line 69: math.pow(progress * 0.92, 2)
FadeInValue(step, steps) == (step * Crossover) * (step * Crossover)

\* FadeOut that fades every channel the new preset has down.
FadeOutAllDown(from, to) == STATE_CHANNELS[to].down

\* transition_to_state, lines 104-105
FadeIn(from, to) == STATE_CHANNELS[to].up \cap STATE_CHANNELS[from].down
FadeOut(from, to) == STATE_CHANNELS[to].down \cap STATE_CHANNELS[from].up

\* ------------------------------------------------------------- threads
Main == 0
Workers == 1 .. MaxWorkers
Threads == {Main} \cup Workers
Pollers == 1 .. MaxPollers

InTransition == {"crossfade", "final", "record"}

VARIABLES
  current_state,     \* self.current_state
  polling,           \* self.polling
  polling_thread,    \* self.polling_thread: the last worker created, 0 for None
  polling_interval,  \* self.polling_interval, in tenths of a second
  vol,               \* the last volume sent for each channel, None before any
  pc,                \* where each thread is
  tr,                \* transition_to_state's locals, per thread
  started,           \* history: the transitions started so far
  overlapped,        \* history: did another transition run during this one
  last,              \* history: the step just taken
  \* set_volume or crossfade called on its own:
  fcall,             \* the call's arguments
  fstep,             \* the loop variable `step`
  fres,              \* "none", the function while it runs, "returned" or the
                     \* exception raised
  fvol,              \* the last value sent for each channel by this call
  fprev,             \* fvol before the last loop iteration
  nsent,             \* messages sent by this call
  \* AbletonStateMonitor:
  channels,          \* self.channels; a volume is kept in hundredths
  current_scene,     \* self.current_scene
  note,              \* history: the last message handled, or lookup made
  played             \* history: per channel, the clips a playing notification
                     \* named and no later stop notification named

ctrl == <<current_state, polling, polling_thread, polling_interval, vol, pc, tr,
          started, overlapped, last>>

fade == <<fcall, fstep, fres, fvol, fprev, nsent>>

store == <<channels, current_scene, note, played>>

vars == <<ctrl, fade, store>>

NoCall == [fn |-> "none", channel |-> None, value |-> 0, duration |-> 0,
           steps |-> 0, fade_in |-> {}, fade_out |-> {}]

Silent == [c \in Channels |-> None]

NoTransition == [to |-> None, from |-> None, step |-> 0]

\* op: the operation; t: its thread; arg: its argument (of a response:
\* its Kind); req: the preset it
\* handed to transition_to_state (None: no call); from, ov: of a transition
\* that just completed, the preset it started from and whether another
\* transition ran during it; wrote: the channels it sent a volume for.
Step(op, t, arg, req, from, ov, wrote) ==
  [op |-> op, t |-> t, arg |-> arg, req |-> req, from |-> from, ov |-> ov,
   wrote |-> wrote]

Call(op, t, arg, req) == Step(op, t, arg, req, None, FALSE, {})

\* AbletonStateMonitor.__init__, line 19: range(9)
NumStoreChannels == 9
StoreChannels == 0 .. (NumStoreChannels - 1)

\* AbletonStateMonitor.__init__, lines 20-24
NewChannel == [volume |-> 0, mute |-> FALSE, playing_clip |-> None]

\* What a lookup gave: a channel's state, or None (found is FALSE).
Got(found, state) == [found |-> found, state |-> state]
NotFound == Got(FALSE, NewChannel)

\* kind: the message's address or the method called; args: its arguments;
\* res: "ok" or the exception raised; got: what a lookup returned; again:
\* the message before it was the same one.
Note(kind, args, res, got) ==
  [kind |-> kind, args |-> args, res |-> res, got |-> got,
   again |-> note.kind = kind /\ note.args = args]

\* EmotionController.__init__ and AbletonStateMonitor.__init__
Init ==
  /\ current_state = None
  /\ polling = FALSE
  /\ polling_thread = 0
  /\ polling_interval = 100
  /\ vol = Silent
  /\ pc = [t \in Threads \cup Pollers |->
             IF t = Main THEN "idle" ELSE "unborn"]
  /\ tr = [t \in Threads |-> NoTransition]
  /\ started = 0
  /\ overlapped = [t \in Threads |-> FALSE]
  /\ last = Call("init", Main, None, None)
  /\ fcall = NoCall
  /\ fstep = 0
  /\ fres = "none"
  /\ fvol = Silent
  /\ fprev = Silent
  /\ nsent = 0
  /\ channels = [i \in StoreChannels |-> NewChannel]
  /\ current_scene = -1
  /\ note = [kind |-> "init", args |-> <<>>, res |-> "ok", got |-> NotFound,
             again |-> FALSE]
  /\ played = [i \in StoreChannels |-> {}]

\* Where a thread goes when its call returns: the command loop, or the
\* worker's sleep and its next test of self.polling.
Return(t) == IF t = Main THEN "idle" ELSE "loop"

\* An exception nothing catches ends a worker thread; in the command thread
\* it ends main(), and the daemon workers with it.
Raise(t) == IF t = Main THEN "crashed" ELSE "dead"

Running == pc[Main] # "crashed"

\* ------------------------------------------------- the transition engine

\* One iteration of crossfade's loop (lines 61-80) on the volumes v.
Crossfade(v, fade_in, fade_out, step, steps) ==
  [c \in Channels |->
     IF c \in fade_in THEN FadeInValue(step, steps)
     ELSE IF c \in fade_out THEN FadeOutValue(step, steps)
     ELSE v[c]]

\* FinalVolumes that sets only the channels the ramp did not touch.
FinalVolumesUnramped(v, to) ==
  [c \in Channels |->
     IF v[c] # None THEN v[c]
     ELSE IF c \in STATE_CHANNELS[to].up THEN Hundredths(OnLevel, RampSteps)
     ELSE IF c \in STATE_CHANNELS[to].down THEN 0
     ELSE v[c]]

\* The final sets of transition_to_state (lines 111-114, 117-120): each is
\* set_volume(channel, value) with duration 0, one immediate message.
FinalVolumes(v, to) ==
  [c \in Channels |->
     IF c \in STATE_CHANNELS[to].up THEN Hundredths(OnLevel, RampSteps)
     ELSE IF c \in STATE_CHANNELS[to].down THEN 0
     ELSE v[c]]

\* EarlyReturn without the test for the current preset.
EarlyReturnInvalidOnly(new_state) == new_state \notin STATES

\* EarlyReturn whose validity test knows one preset too many.
EarlyReturnOffByOne(new_state) ==
  new_state \notin (STATES \cup {0}) \/ current_state = new_state

\* transition_to_state, lines 84-90: the two early returns.
EarlyReturn(new_state) ==
  new_state \notin STATES \/ current_state = new_state

\* transition_to_state up to the first message (lines 82-105): the early
\* returns, or the transition's locals and where it starts.
TransitionToState(t, new_state) ==
  /\ UNCHANGED <<current_state, vol>>
  /\ IF EarlyReturn(new_state)
       THEN /\ pc' = [pc EXCEPT ![t] = Return(t)]
            /\ UNCHANGED <<tr, started, overlapped>>
       ELSE /\ started < MaxTransitions
            /\ started' = started + 1
            /\ tr' = [tr EXCEPT ![t] = [to |-> new_state, from |-> current_state,
                                         step |-> 0]]
            /\ pc' = [pc EXCEPT ![t] =
                        IF current_state # None THEN "crossfade" ELSE "final"]
            /\ LET others == {u \in Threads \ {t} : pc[u] \in InTransition}
               IN overlapped' = [u \in Threads |->
                                   IF u = t THEN others # {}
                                   ELSE IF u \in others THEN TRUE
                                   ELSE overlapped[u]]

\* main, lines 222-224, and any other direct caller of transition_to_state.
ManualTransition(new_state) ==
  /\ pc[Main] = "idle"
  /\ TransitionToState(Main, new_state)
  /\ last' = Call("transition_to_state", Main, new_state, new_state)
  /\ UNCHANGED <<polling, polling_thread, polling_interval>>
  /\ UNCHANGED <<fade, store>>

\* crossfade, one step of the ramp and its sleep (lines 61-80).
CrossfadeStep(t) ==
  /\ Running
  /\ pc[t] = "crossfade"
  /\ LET x == tr[t]
         fi == FadeIn(x.from, x.to)
         fo == FadeOut(x.from, x.to)
     IN /\ vol' = Crossfade(vol, fi, fo, x.step, RampSteps)
        /\ last' = Step("crossfade", t, x.step, None, None, FALSE, fi \cup fo)
        /\ IF x.step < RampSteps
             THEN /\ tr' = [tr EXCEPT ![t].step = x.step + 1]
                  /\ UNCHANGED pc
             ELSE /\ pc' = [pc EXCEPT ![t] = "final"]
                  /\ UNCHANGED tr
  /\ UNCHANGED <<current_state, polling, polling_thread, polling_interval,
                 started, overlapped>>
  /\ UNCHANGED <<fade, store>>

\* transition_to_state, the final sets (lines 110-120).
FinalSet(t) ==
  /\ Running
  /\ pc[t] = "final"
  /\ vol' = FinalVolumes(vol, tr[t].to)
  /\ pc' = [pc EXCEPT ![t] = "record"]
  /\ last' = Step("final", t, tr[t].to, None, None, FALSE,
                  STATE_CHANNELS[tr[t].to].up \cup STATE_CHANNELS[tr[t].to].down)
  /\ UNCHANGED <<current_state, polling, polling_thread, polling_interval, tr,
                 started, overlapped>>
  /\ UNCHANGED <<fade, store>>

\* transition_to_state, line 122, and the return.
RecordState(t) ==
  /\ Running
  /\ pc[t] = "record"
  /\ current_state' = tr[t].to
  /\ pc' = [pc EXCEPT ![t] = Return(t)]
  /\ tr' = [tr EXCEPT ![t] = NoTransition]
  /\ overlapped' = [overlapped EXCEPT ![t] = FALSE]
  /\ last' = Step("record", t, tr[t].to, None, tr[t].from, overlapped[t], {})
  /\ UNCHANGED <<polling, polling_thread, polling_interval, vol, started>>
  /\ UNCHANGED <<fade, store>>

\* ------------------------------------------------- the desired-state poller

\* A JSON value under the key 'state': ty is its JSON type and n its number
\* (a float in tenths, a string of digits as the number it spells).
JInt(n) == [ty |-> "int", n |-> n]
JFloat(tenths) == [ty |-> "float", n |-> tenths]
JDigits(n) == [ty |-> "digits", n |-> n]
JWord == [ty |-> "word", n |-> 0]
JNull == [ty |-> "null", n |-> 0]

\* What requests.get brings back: net "error" is a RequestException; shape is
\* what response.json() yields ("invalid" raises JSONDecodeError).
Response(net, status, shape, has_state, state) ==
  [net |-> net, status |-> status, shape |-> shape, has_state |-> has_state,
   state |-> state]

Body(shape, has_state, state) == Response("ok", 200, shape, has_state, state)

Responses ==
  {Response("error", 0, "none", FALSE, JNull),
   Response("ok", 500, "none", FALSE, JNull),
   Body("invalid", FALSE, JNull),
   Body("number", FALSE, JNull),
   Body("array", FALSE, JNull),
   Body("object", FALSE, JNull)}
  \cup {Body("object", TRUE, v) :
          v \in {JInt(n) : n \in {0, 2, 3, 99}}
                \cup {JFloat(25), JDigits(3), JWord, JNull}}

\* Python's int() on a JSON value (line 138): truncation of a float, the
\* number a string of digits spells, ValueError for any other string,
\* TypeError for null.
PyInt(v) ==
  CASE v.ty = "int" -> [err |-> "none", n |-> v.n]
    [] v.ty = "float" -> [err |-> "none",
                          n |-> IF v.n >= 0 THEN v.n \div 10 ELSE -((-v.n) \div 10)]
    [] v.ty = "digits" -> [err |-> "none", n |-> v.n]
    [] v.ty = "word" -> [err |-> "ValueError", n |-> 0]
    [] v.ty = "null" -> [err |-> "TypeError", n |-> 0]

\* What the response is, in the words of the poller's contract: the fetch
\* "failed" (transport error, status other than 200, a body that is no JSON
\* object), the object has "no_state" field, the field is "not_integer", it
\* is an integer of an "unknown_id", or the response is "recognized".
Kind(r) ==
  IF r.net # "ok" \/ r.status # 200 \/ r.shape # "object" THEN "failed"
  ELSE IF ~r.has_state THEN "no_state"
  ELSE IF r.state.ty # "int" THEN "not_integer"
  ELSE IF r.state.n \notin STATES THEN "unknown_id"
  ELSE "recognized"

Discard == [out |-> "discard", state |-> None]
Uncaught == [out |-> "raise", state |-> None]
Request(state) == [out |-> "request", state |-> state]

\* poll_api (lines 125-153) on the response r: discard it, hand a preset to
\* transition_to_state, or let an exception escape.
PollApi(r) ==
  IF r.net # "ok" THEN Discard                      \* lines 152-153
  ELSE IF r.status # 200 THEN Discard               \* lines 150-151
  ELSE IF r.shape = "invalid" THEN Discard          \* lines 146-149
  ELSE IF r.shape = "number" THEN Uncaught          \* line 137: TypeError
  ELSE IF r.shape = "array" \/ ~r.has_state THEN Discard    \* lines 144-145
  ELSE LET i == PyInt(r.state)
       IN IF i.err = "ValueError" THEN Discard      \* lines 146-147
          ELSE IF i.err = "TypeError" THEN Uncaught \* line 138, no handler
          ELSE IF i.n \in STATES THEN Request(i.n)  \* lines 139-141
          ELSE Discard                              \* lines 142-143

\* main, lines 226-229: 'p', requests.get is sent.
ManualPoll ==
  /\ pc[Main] = "idle"
  /\ pc' = [pc EXCEPT ![Main] = "fetch"]
  /\ last' = Call("poll_api", Main, None, None)
  /\ UNCHANGED <<current_state, polling, polling_thread, polling_interval, vol,
                 tr, started, overlapped>>
  /\ UNCHANGED <<fade, store>>

\* poll_api from the return of requests.get (lines 130-153).
PollResponse(t, r) ==
  /\ Running
  /\ pc[t] = "fetch"
  /\ LET o == PollApi(r)
     IN /\ last' = Call("response", t, Kind(r), o.state)
        /\ IF o.out = "request"
             THEN TransitionToState(t, o.state)
             ELSE /\ pc' = [pc EXCEPT ![t] =
                              IF o.out = "raise" THEN Raise(t) ELSE Return(t)]
                  /\ UNCHANGED <<current_state, vol, tr, started, overlapped>>
  /\ UNCHANGED <<polling, polling_thread, polling_interval>>
  /\ UNCHANGED <<fade, store>>

\* polling_worker (lines 155-159): the sleep, then the test of self.polling.
WorkerLoop(t) ==
  /\ Running
  /\ pc[t] = "loop"
  /\ pc' = [pc EXCEPT ![t] = IF polling THEN "fetch" ELSE "dead"]
  /\ last' = Call("polling_worker", t, polling, None)
  /\ UNCHANGED <<current_state, polling, polling_thread, polling_interval, vol,
                 tr, started, overlapped>>
  /\ UNCHANGED <<fade, store>>

\* start_polling (lines 161-171), creating no more than cap threads.
StartPollingWithin(cap) ==
  /\ pc[Main] = "idle"
  /\ polling \/ polling_thread < cap
  /\ last' = Call("start_polling", Main, polling, None)
  /\ IF polling
       THEN UNCHANGED <<polling, polling_thread, pc>>
       ELSE /\ polling' = TRUE
            /\ polling_thread' = polling_thread + 1
            /\ pc' = [pc EXCEPT ![polling_thread + 1] = "loop"]
  /\ UNCHANGED <<current_state, polling_interval, vol, tr, started, overlapped>>
  /\ UNCHANGED <<fade, store>>

StartPolling == StartPollingWithin(MaxWorkers)

\* stop_polling without the test of self.polling.
StopPollingUnguarded ==
  /\ pc[Main] = "idle"
  /\ last' = Call("stop_polling", Main, polling, None)
  /\ polling' = FALSE
  /\ pc' = [pc EXCEPT ![Main] = "join"]
  /\ UNCHANGED <<current_state, polling_thread, polling_interval, vol, tr,
                 started, overlapped>>
  /\ UNCHANGED <<fade, store>>

\* stop_polling (lines 173-180), up to the join.
StopPolling ==
  /\ pc[Main] = "idle"
  /\ last' = Call("stop_polling", Main, polling, None)
  /\ IF ~polling
       THEN UNCHANGED <<polling, pc>>
       ELSE /\ polling' = FALSE
            /\ pc' = [pc EXCEPT ![Main] = "join"]
  /\ UNCHANGED <<current_state, polling_thread, polling_interval, vol, tr,
                 started, overlapped>>
  /\ UNCHANGED <<fade, store>>

\* stop_polling, lines 181-182: join(timeout=1.0) returns, the worker ended
\* or not.
JoinReturn ==
  /\ pc[Main] = "join"
  /\ pc' = [pc EXCEPT ![Main] = "idle"]
  /\ last' = Call("join", Main, pc[polling_thread], None)
  /\ UNCHANGED <<current_state, polling, polling_thread, polling_interval, vol,
                 tr, started, overlapped>>
  /\ UNCHANGED <<fade, store>>

\* Presets asked of transition_to_state: the five of the catalog and two
\* that are not in it.
TransitionInputs == STATES \cup {0, 6}

Next ==
  \/ \E p \in TransitionInputs : ManualTransition(p)
  \/ ManualPoll
  \/ StartPolling
  \/ StopPolling
  \/ JoinReturn
  \/ \E t \in Threads : \E r \in Responses : PollResponse(t, r)
  \/ \E t \in Workers : WorkerLoop(t)
  \/ \E t \in Threads : CrossfadeStep(t)
  \/ \E t \in Threads : FinalSet(t)
  \/ \E t \in Threads : RecordState(t)

Spec == Init /\ [][Next]_vars

\* ------------------------------------------- the polling lifecycle alone

\* Python's float() on a value (line 187), in tenths of a second: ValueError
\* for a string that spells no number, TypeError for None.
PyFloat(v) ==
  CASE v.ty = "int" -> [err |-> "none", n |-> 10 * v.n]
    [] v.ty = "float" -> [err |-> "none", n |-> v.n]
    [] v.ty = "digits" -> [err |-> "none", n |-> 10 * v.n]
    [] v.ty = "word" -> [err |-> "ValueError", n |-> 0]
    [] v.ty = "null" -> [err |-> "TypeError", n |-> 0]

\* IntervalAfter that refuses only what is not positive.
IntervalAfterPositive(interval, f) ==
  IF f.err # "none" \/ f.n <= 0 THEN interval ELSE f.n

\* set_polling_interval (lines 186-194): self.polling_interval after the
\* call, f being float(seconds).
IntervalAfter(interval, f) ==
  IF f.err # "none" \/ f.n < 10 THEN interval ELSE f.n

\* set_polling_interval (lines 184-194). last.arg is float(seconds) in tenths
\* and last.req the exception float() raised ("none": it raised nothing); a
\* TypeError is not caught.
SetPollingInterval(seconds) ==
  /\ pc[Main] = "idle"
  /\ LET f == PyFloat(seconds)
     IN /\ polling_interval' = IntervalAfter(polling_interval, f)
        /\ pc' = [pc EXCEPT ![Main] =
                    IF f.err = "TypeError" THEN Raise(Main) ELSE Return(Main)]
        /\ last' = Call("set_polling_interval", Main, f.n, f.err)
  /\ UNCHANGED <<current_state, polling, polling_thread, vol, tr, started,
                 overlapped>>
  /\ UNCHANGED <<fade, store>>

\* Values handed to set_polling_interval.
IntervalInputs ==
  {JInt(0), JInt(1), JInt(2), JFloat(-10), JFloat(9), JFloat(10), JFloat(25),
   JDigits(3), JWord, JNull}

\* Responses that hand no preset to transition_to_state.
QuietResponses == {r \in Responses : PollApi(r).out # "request"}

NextPolling ==
  \/ StartPollingWithin(MaxPollers)
  \/ StopPolling
  \/ JoinReturn
  \/ \E t \in Pollers : WorkerLoop(t)
  \/ \E t \in Pollers : \E r \in QuietResponses : PollResponse(t, r)
  \/ \E seconds \in IntervalInputs : SetPollingInterval(seconds)

SpecPolling == Init /\ [][NextPolling]_vars

\* ------------------------------- set_volume and crossfade called directly
\* A value sent by set_volume is counted in hundredths when it is sent at
\* once and in units of 1/(100*steps^2) inside the fade; one sent by
\* crossfade in units of 1/(100*steps)^2.

NotCalling == fres \notin {"set_volume", "crossfade"}

\* set_volume, lines 37-47: the immediate message, or the fade's parameters.
SetVolumeCall(channel, value, duration, steps) ==
  /\ NotCalling
  /\ fcall' = [NoCall EXCEPT !.fn = "set_volume", !.channel = channel,
                             !.value = value, !.duration = duration,
                             !.steps = steps]
  /\ fstep' = 0
  /\ fprev' = Silent
  /\ IF duration <= 0
       THEN /\ fvol' = [Silent EXCEPT ![channel] = value]
            /\ nsent' = 1
            /\ fres' = "returned"
       ELSE /\ fvol' = Silent
            /\ nsent' = 0
            /\ fres' = IF steps = 0 THEN "ZeroDivisionError" ELSE "set_volume"
  /\ UNCHANGED <<ctrl, store>>

\* set_volume, lines 49-54: one iteration of the fade.
SetVolumeLoop ==
  /\ fres = "set_volume"
  /\ fprev' = fvol
  /\ fvol' = [fvol EXCEPT ![fcall.channel] = fstep * fstep * fcall.value]
  /\ nsent' = nsent + 1
  /\ fstep' = fstep + 1
  /\ fres' = IF fstep < fcall.steps THEN "set_volume" ELSE "returned"
  /\ UNCHANGED <<fcall, ctrl, store>>

\* crossfade, lines 56-58.
CrossfadeCall(fade_in, fade_out, duration, steps) ==
  /\ NotCalling
  /\ fcall' = [NoCall EXCEPT !.fn = "crossfade", !.fade_in = fade_in,
                             !.fade_out = fade_out, !.duration = duration,
                             !.steps = steps]
  /\ fstep' = 0
  /\ fprev' = Silent
  /\ fvol' = Silent
  /\ nsent' = 0
  /\ fres' = IF steps = 0 THEN "ZeroDivisionError" ELSE "crossfade"
  /\ UNCHANGED <<ctrl, store>>

\* crossfade, lines 61-80: one iteration of the ramp.
CrossfadeLoop ==
  /\ fres = "crossfade"
  /\ fprev' = fvol
  /\ fvol' = Crossfade(fvol, fcall.fade_in, fcall.fade_out, fstep, fcall.steps)
  /\ nsent' = nsent + Cardinality(fcall.fade_in) + Cardinality(fcall.fade_out)
  /\ fstep' = fstep + 1
  /\ fres' = IF fstep < fcall.steps THEN "crossfade" ELSE "returned"
  /\ UNCHANGED <<fcall, ctrl, store>>

\* Arguments of the direct calls.
FadeValues == {0, 50, OnLevel}
FadeDurations == {-1, 0, 3}
FadeSteps == 0 .. MaxFadeSteps

NextFade ==
  \/ \E value \in FadeValues, duration \in FadeDurations, steps \in FadeSteps :
        SetVolumeCall(0, value, duration, steps)
  \/ SetVolumeLoop
  \/ \E from \in STATES, to \in STATES, steps \in FadeSteps :
        /\ from # to
        /\ CrossfadeCall(FadeIn(from, to), FadeOut(from, to), 3, steps)
  \/ CrossfadeLoop

SpecFade == Init /\ [][NextFade]_vars

\* ------------------------------------------------- the channel state store
\* AbletonStateMonitor's handlers. A message's arguments are a tuple of
\* numbers; a volume is counted in hundredths.

\* Python's bool() on a number (lines 125, 135).
PyBool(x) == x # 0

\* "Only process channels 0-8" (lines 113, 128, 138).
InRange(track_index) == 0 <= track_index /\ track_index < NumStoreChannels

\* TrackVolume that takes the track index to count from 1.
TrackVolumeFromOne(ch, args) ==
  IF Len(args) >= 2 /\ InRange(args[1] - 1)
    THEN [ch EXCEPT ![args[1] - 1].volume = args[2]]
    ELSE ch

\* _on_track_volume (lines 107-115): self.channels after the message.
TrackVolume(ch, args) ==
  IF Len(args) >= 2 /\ InRange(args[1])
    THEN [ch EXCEPT ![args[1]].volume = args[2]]
    ELSE ch

\* _on_track_volume (lines 117-120), after the volume is stored: math is
\* imported only when the file runs as a script (line 196), so math.log10 of
\* a nonzero volume raises NameError when the class is imported, and
\* ValueError for a negative volume when it runs as a script.
TrackVolumeResults(args) ==
  IF Len(args) >= 2 /\ InRange(args[1]) /\ args[2] # 0
    THEN {IF args[2] < 0 THEN "ValueError" ELSE "ok", "NameError"}
    ELSE {"ok"}

\* TrackMute that flips the flag when told to mute.
TrackMuteToggle(ch, args) ==
  IF Len(args) >= 2 /\ InRange(args[1])
    THEN [ch EXCEPT ![args[1]].mute = IF PyBool(args[2]) THEN ~@ ELSE FALSE]
    ELSE ch

\* _on_track_mute (lines 122-130): self.channels after the message.
TrackMute(ch, args) ==
  IF Len(args) >= 2 /\ InRange(args[1])
    THEN [ch EXCEPT ![args[1]].mute = PyBool(args[2])]
    ELSE ch

\* ClipPlayingStatus that clears the active clip on every stop.
ClipPlayingStatusAnyStop(ch, args) ==
  IF Len(args) >= 3 /\ InRange(args[1])
    THEN [ch EXCEPT ![args[1]].playing_clip =
                      IF PyBool(args[3]) THEN args[2] ELSE None]
    ELSE ch

\* _on_clip_playing_status (lines 132-144): self.channels after the message.
ClipPlayingStatus(ch, args) ==
  IF Len(args) >= 3 /\ InRange(args[1])
    THEN IF PyBool(args[3])
           THEN [ch EXCEPT ![args[1]].playing_clip = args[2]]
         ELSE IF ch[args[1]].playing_clip = args[2]
           THEN [ch EXCEPT ![args[1]].playing_clip = None]
         ELSE ch
    ELSE ch

\* SceneTriggered that resets the scene on an empty message.
SceneTriggeredReset(scene, args) ==
  IF Len(args) > 0 THEN args[1] ELSE -1

\* _on_scene_triggered (lines 146-151): self.current_scene after the message.
SceneTriggered(scene, args) == IF Len(args) > 0 THEN args[1] ELSE scene

\* GetChannelState without the conversion from 1-based indexing.
GetChannelStateFromZero(ch, channel_index) ==
  IF 0 <= channel_index /\ channel_index < NumStoreChannels
    THEN Got(TRUE, ch[channel_index])
    ELSE NotFound

\* get_channel_state (lines 159-165): channel_index counts from 1.
GetChannelState(ch, channel_index) ==
  LET index == channel_index - 1
  IN IF 0 <= index /\ index < NumStoreChannels
       THEN Got(TRUE, ch[index])
       ELSE NotFound

\* The clips of each channel that a playing notification named and no later
\* stop notification named, after the clip-playing-status message `args`.
Played(pl, args) ==
  IF Len(args) >= 3 /\ InRange(args[1])
    THEN [pl EXCEPT ![args[1]] =
            IF PyBool(args[3]) THEN @ \cup {args[2]} ELSE @ \ {args[2]}]
    ELSE pl

\* /live/track/volume
OnTrackVolume(args) ==
  /\ channels' = TrackVolume(channels, args)
  /\ \E res \in TrackVolumeResults(args) :
       note' = Note("/live/track/volume", args, res, NotFound)
  /\ UNCHANGED <<current_scene, played, ctrl, fade>>

\* /live/track/mute
OnTrackMute(args) ==
  /\ channels' = TrackMute(channels, args)
  /\ note' = Note("/live/track/mute", args, "ok", NotFound)
  /\ UNCHANGED <<current_scene, played, ctrl, fade>>

\* /live/clip/playing_status
OnClipPlayingStatus(args) ==
  /\ channels' = ClipPlayingStatus(channels, args)
  /\ played' = Played(played, args)
  /\ note' = Note("/live/clip/playing_status", args, "ok", NotFound)
  /\ UNCHANGED <<current_scene, ctrl, fade>>

\* /live/scene/triggered
OnSceneTriggered(args) ==
  /\ current_scene' = SceneTriggered(current_scene, args)
  /\ note' = Note("/live/scene/triggered", args, "ok", NotFound)
  /\ UNCHANGED <<channels, played, ctrl, fade>>

\* /live/error (lines 153-155), and any address the dispatcher does not map
\* (lines 49-64): nothing is stored.
OnError(args) ==
  /\ note' = Note("/live/error", args, "ok", NotFound)
  /\ UNCHANGED <<channels, current_scene, played, ctrl, fade>>

OnUnmapped(args) ==
  /\ note' = Note("/live/track/get/volume", args, "ok", NotFound)
  /\ UNCHANGED <<channels, current_scene, played, ctrl, fade>>

\* A caller of get_channel_state.
Lookup(channel_index) ==
  /\ note' = Note("get_channel_state", <<channel_index>>, "ok",
                  GetChannelState(channels, channel_index))
  /\ UNCHANGED <<channels, current_scene, played, ctrl, fade>>

\* The messages that arrive.
VolumeIndexes == {-1, 0, 8, 9}
TrackIndexes == {-1, 0, 9}
Volumes == {-10, 0, 50, 150}
Flags == {0, 1}
Clips == {0, 1}
Scenes == {0, 1}

VolumeArgs ==
  {<<>>, <<0>>, <<0, 50, 7>>} \cup {<<i, v>> : i \in VolumeIndexes, v \in Volumes}
MuteArgs ==
  {<<>>, <<0>>, <<0, 1, 7>>} \cup {<<i, m>> : i \in TrackIndexes, m \in Flags}
ClipArgs ==
  {<<>>, <<0>>, <<0, 0>>, <<0, 0, 1, 7>>}
  \cup {<<i, c, p>> : i \in TrackIndexes, c \in Clips, p \in Flags}
SceneArgs == {<<>>, <<1, 7>>} \cup {<<x>> : x \in Scenes}
ErrorArgs == {<<>>, <<0>>}
LookupIndexes == {-1, 0, 1, NumStoreChannels, NumStoreChannels + 1}

NextStore ==
  \/ \E args \in VolumeArgs : OnTrackVolume(args)
  \/ \E args \in MuteArgs : OnTrackMute(args)
  \/ \E args \in ClipArgs : OnClipPlayingStatus(args)
  \/ \E args \in SceneArgs : OnSceneTriggered(args)
  \/ \E args \in ErrorArgs : OnError(args)
  \/ \E args \in ErrorArgs : OnUnmapped(args)
  \/ \E k \in LookupIndexes : Lookup(k)

SpecStore == Init /\ [][NextStore]_vars

\* ------------------------------------------------------------ properties

OnVolume == Hundredths(OnLevel, RampSteps)

InPreset(p) ==
  /\ \A c \in STATE_CHANNELS[p].up : vol[c] = OnVolume
  /\ \A c \in STATE_CHANNELS[p].down : vol[c] = 0

Transitioning == {t \in Threads : pc[t] \in InTransition}

IsRequest(step) == step.op \in {"transition_to_state", "response"} /\ step.req # None

\* C1: when a transition to P that no other transition overlapped completes,
\* the last volume sent is 0.84 for every up channel of P and 0 for every
\* down channel of P, and the recorded preset is P, whatever preset (or none)
\* it started from.
C1_CompletedTransition ==
  (last.op = "record" /\ ~last.ov) =>
     (current_state = last.arg /\ InPreset(last.arg))

\* A transition with a ramp, from a recorded preset, has completed without
\* overlap.
C1_Witness ==
  last.op = "record" /\ ~last.ov /\ last.from # None /\ last.arg = 2

\* C2: transition requests are serialized, at most one transition is
\* executing at any time.
C2_Serialized == Cardinality(Transitioning) <= 1

\* C3: transition_to_state(P) with P the recorded preset sends no volume,
\* starts no ramp and leaves the recorded preset and every volume unchanged.
C3_SamePresetNoop ==
  [][(IsRequest(last') /\ last'.req = current_state) =>
       /\ last'.wrote = {}
       /\ pc'[last'.t] \notin InTransition
       /\ tr' = tr
       /\ current_state' = current_state
       /\ vol' = vol]_vars

\* A request for the recorded preset has been made after a transition to it.
C3_Witness ==
  /\ IsRequest(last) /\ last.req = current_state
  /\ started > 0 /\ Transitioning = {}

\* C4: transition_to_state with an id that is not in the catalog sends no
\* volume, starts nothing and leaves the recorded preset unchanged.
C4_InvalidPresetRejected ==
  [][(IsRequest(last') /\ last'.req \notin STATES) =>
       /\ last'.wrote = {}
       /\ pc'[last'.t] \notin InTransition
       /\ tr' = tr
       /\ current_state' = current_state
       /\ vol' = vol]_vars

\* An unknown id has been asked for while a preset was recorded.
C4_Witness ==
  IsRequest(last) /\ last.req \notin STATES /\ current_state # None

\* C6: a response with no 'state' field, with a field that is no integer, or
\* with an integer that names no preset leads to no transition request.
C6_InvalidNeverApplied ==
  (last.op = "response" /\ last.arg # "recognized") => last.req = None

\* C7: while polling is enabled, the worker that handled a response other
\* than a recognized one is still alive.
C7_WorkerSurvives ==
  (last.op = "response" /\ last.t \in Workers /\ last.arg # "recognized"
     /\ polling)
    => pc[last.t] # "dead"

\* C8: once stop_polling has returned, a response that the cancelled worker
\* was still waiting for starts no transition.
C8_NoRequestAfterStop ==
  (last.op = "response" /\ last.t \in Workers /\ ~polling
     /\ pc[Main] # "join")
    => pc[last.t] \notin InTransition

\* C9: start_polling while polling, and stop_polling while not polling,
\* create no worker, change no state and raise nothing.
C9_StartStopIdempotent ==
  [][((last'.op = "start_polling" /\ polling)
        \/ (last'.op = "stop_polling" /\ ~polling)) =>
       /\ pc' = pc
       /\ UNCHANGED <<current_state, polling, polling_thread, polling_interval,
                      vol, tr>>]_vars

\* Both no-ops have happened: a second start while polling, or a stop while
\* stopped after a worker had been started.
C9_Witness ==
  \/ last.op = "start_polling" /\ last.arg = TRUE
  \/ last.op = "stop_polling" /\ last.arg = FALSE /\ polling_thread > 0

\* C5: from one step of a ramp to the next, the value sent to a fade-in
\* channel does not decrease and the value sent to a fade-out channel does
\* not increase.
C5_CrossfadeMonotone ==
  (fcall.fn = "crossfade" /\ fstep >= 2) =>
     /\ \A c \in fcall.fade_in : fprev[c] <= fvol[c]
     /\ \A c \in fcall.fade_out : fprev[c] >= fvol[c]

\* The ramp of 30 steps from Daytime to Nocturnal has run to its end.
C5_Witness ==
  /\ fcall.fn = "crossfade" /\ fcall.steps = 30 /\ fres = "returned"
  /\ fcall.fade_in = 5 .. 8 /\ fcall.fade_out = 0 .. 3

\* C10: set_volume with steps = 0 or duration <= 0 sends `value` once and
\* raises nothing.
C10_ImmediateWrite ==
  (fcall.fn = "set_volume" /\ (fcall.steps = 0 \/ fcall.duration <= 0)) =>
     (fres = "returned" /\ nsent = 1 /\ fvol[fcall.channel] = fcall.value)

\* C11: right after the engine has sent value v for channel c (a ramp step
\* or a final set), the store's volume for c is v.
C11_EngineWritesStore ==
  (last.op \in {"crossfade", "final"}) =>
     \A c \in last.wrote :
        /\ c \in StoreChannels
        /\ Hundredths(channels[c].volume, RampSteps) = vol[c]

\* C12: every stored volume lies in [0, 1].
C12_VolumeInUnitInterval ==
  \A i \in StoreChannels : 0 <= channels[i].volume /\ channels[i].volume <= 100

Handlers3 ==
  {"/live/track/volume", "/live/track/mute", "/live/clip/playing_status"}

\* C13: a track-volume, track-mute or clip-playing-status notification for a
\* channel index outside [0, 9) leaves every channel and the scene unchanged.
C13_OutOfRangeIgnored ==
  [][(/\ note'.kind \in Handlers3
      /\ Len(note'.args) >= 1
      /\ (note'.args[1] < 0 \/ note'.args[1] >= 9)) =>
       (channels' = channels /\ current_scene' = current_scene)]_vars

\* A volume for channel index 9 has arrived after channel 8 got a volume.
C13_Witness ==
  /\ note.kind = "/live/track/volume" /\ note.args = <<9, 150>>
  /\ channels[8].volume = 50

\* C14, as claimed: the lookup returns channel i's state for i in [0, 9) and
\* NotFound for any other i.
C14_LookupZeroBased ==
  (note.kind = "get_channel_state") =>
     note.got = IF 0 <= note.args[1] /\ note.args[1] < 9
                  THEN Got(TRUE, channels[note.args[1]])
                  ELSE NotFound

\* C14, amended: get_channel_state(k) returns the state of channel k - 1
\* for k in [1, 9] and None for any other k.
C14_LookupOneBased ==
  (note.kind = "get_channel_state") =>
     note.got = IF 1 <= note.args[1] /\ note.args[1] <= 9
                  THEN Got(TRUE, channels[note.args[1] - 1])
                  ELSE NotFound

\* get_channel_state(9) has returned channel 8's state, which differs from
\* a fresh channel's.
C14_Witness ==
  /\ note.kind = "get_channel_state" /\ note.args = <<9>>
  /\ note.got = Got(TRUE, channels[8]) /\ channels[8].volume = 50

\* C15: a channel's active clip is one that a playing notification set and
\* no later stop for that clip cleared, and a stop for a clip that is not
\* the active one changes no channel.
C15_ActiveClip ==
  [][/\ \A i \in StoreChannels :
          channels'[i].playing_clip # None =>
             channels'[i].playing_clip \in played'[i]
     /\ (/\ note'.kind = "/live/clip/playing_status"
         /\ Len(note'.args) >= 3
         /\ note'.args[1] \in StoreChannels
         /\ note'.args[3] = 0
         /\ channels[note'.args[1]].playing_clip # note'.args[2]) =>
           channels' = channels]_vars

\* A stop for clip 1 has arrived on channel 0 while clip 0 is its active
\* clip.
C15_Witness ==
  /\ note.kind = "/live/clip/playing_status" /\ note.args = <<0, 1, 0>>
  /\ channels[0].playing_clip = 0

\* The number of arguments each notification carries.
Arity(kind) ==
  CASE kind = "/live/track/volume" -> 2
    [] kind = "/live/track/mute" -> 2
    [] kind = "/live/clip/playing_status" -> 3
    [] kind = "/live/scene/triggered" -> 1

Handlers4 == Handlers3 \cup {"/live/scene/triggered"}

StoreUnchanged ==
  channels' = channels /\ current_scene' = current_scene

\* C16, as claimed: a notification whose number of arguments is not the
\* expected one does not raise and leaves the store unchanged.
C16_WrongArityDropped ==
  [][(note'.kind \in Handlers4 /\ Len(note'.args) # Arity(note'.kind)) =>
       (note'.res = "ok" /\ StoreUnchanged)]_vars

\* C16, amended: a notification with fewer arguments than expected does not
\* raise and leaves the store unchanged.
C16_TooFewDropped ==
  [][(note'.kind \in Handlers4 /\ Len(note'.args) < Arity(note'.kind)) =>
       (note'.res = "ok" /\ StoreUnchanged)]_vars

\* An empty scene-triggered message has arrived after a scene was set.
C16_Witness ==
  /\ note.kind = "/live/scene/triggered" /\ note.args = <<>>
  /\ current_scene = 1

\* C17: a track-volume or track-mute notification that repeats the one
\* before it changes nothing in the store.
C17_Idempotent ==
  [][(note'.again /\ note'.kind \in {"/live/track/volume", "/live/track/mute"})
       => (StoreUnchanged /\ played' = played)]_vars

\* The same mute notification has arrived twice in a row.
C17_Witness ==
  /\ note.again /\ note.kind = "/live/track/mute" /\ note.args = <<0, 1>>
  /\ channels[0].mute

\* C18: set_polling_interval(x) leaves the interval as it was when x is
\* below 1 second and sets it to x when x is 1 second or more.
C18_IntervalFloor ==
  [][(last'.op = "set_polling_interval" /\ last'.req = "none") =>
       polling_interval' = IF last'.arg < 10 THEN polling_interval
                           ELSE last'.arg]_vars

\* set_polling_interval(0.9) has been refused after the interval was set to
\* 2.5 seconds.
C18_Witness ==
  /\ last.op = "set_polling_interval" /\ last.req = "none" /\ last.arg = 9
  /\ polling_interval = 25

\* C20: at most one polling worker is issuing polls at any time.
C20_OneActiveWorker ==
  Cardinality({t \in Pollers : pc[t] = "fetch"}) <= 1

\* The channels whose on/off status differs between the presets from and to.
StatusChanged(from, to) ==
  {c \in Channels :
     (c \in STATE_CHANNELS[from].up) # (c \in STATE_CHANNELS[to].up)}

\* C19: each step of the ramp from preset from to preset to writes exactly
\* the channels of to.up \cap from.down and of to.down \cap from.up, which
\* are the channels whose status changes; a channel whose status is the same
\* is not written by the ramp and is written to its final value by the final
\* sets.
C19_RampWrites ==
  [][LET t == last'.t
         from == tr[t].from
         to == tr[t].to
         fadeIn == STATE_CHANNELS[to].up \cap STATE_CHANNELS[from].down
         fadeOut == STATE_CHANNELS[to].down \cap STATE_CHANNELS[from].up
     IN /\ (last'.op = "crossfade") =>
             /\ last'.wrote = fadeIn \cup fadeOut
             /\ last'.wrote = StatusChanged(from, to)
             /\ \A c \in fadeIn : vol'[c] = FadeInValue(tr[t].step, RampSteps)
             /\ \A c \in fadeOut : vol'[c] = FadeOutValue(tr[t].step, RampSteps)
             /\ \A c \in Channels \ StatusChanged(from, to) : vol'[c] = vol[c]
        /\ (last'.op = "final" /\ from # None) =>
             \A c \in Channels \ StatusChanged(from, to) :
                /\ c \in last'.wrote
                /\ vol'[c] = IF c \in STATE_CHANNELS[to].up
                               THEN Hundredths(OnLevel, RampSteps) ELSE 0]_vars

\* The ramp from preset 1 to preset 2 has made its last step; channels 4 and
\* 9, down in both, hold the 0 of preset 1's final sets.
C19_Witness ==
  /\ last.op = "crossfade" /\ last.arg = RampSteps
  /\ tr[last.t].from = 1 /\ tr[last.t].to = 2
  /\ last.wrote = (0 .. 3) \cup (5 .. 8)
  /\ vol[4] = 0 /\ vol[9] = 0

\* C21: whenever no transition_to_state call is in progress, the last volume
\* sent is 0.84 for every up channel of the recorded preset and 0 for every
\* down channel of it.
C21_RecordedMatchesVolumes ==
  (Transitioning = {} /\ current_state # None) => InPreset(current_state)

====
